---- MODULE Spec2Model ----
(***************************************************************************)
(* Model of the RenderCICD word service: an Express application with two   *)
(* routes (routes/Words.js) over one mongoose model (models/Word.js).      *)
(*                                                                         *)
(* A request is handled in three steps, as the async handlers run them:    *)
(* the synchronous prefix up to the await, the database operation, and the *)
(* continuation (or catch block) that writes the response.  Requests       *)
(* interleave at the awaits.                                               *)
(***************************************************************************)
EXTENDS Integers, Sequences, FiniteSets, TLC

\* ---------------------------------------------------------------- bounds
MaxReq == 3
MaxLen == 1

\* ------------------------------------------------------ program constants
HTTP_OK == 200
HTTP_BAD_REQUEST == 400
HTTP_NOT_FOUND == 404
HTTP_INTERNAL_SERVER_ERROR == 500

\* ------------------------------------------------------------- JS values
\* A JSON-parsed value: a tag, a number and a string (a sequence of
\* characters); only the component of the tag is meaningful.
Alphabet == {"a"}

RECURSIVE StringsUpTo(_)
StringsUpTo(n) ==
    IF n = 0 THEN {<<>>}
    ELSE LET shorter == StringsUpTo(n - 1)
         IN  shorter \cup {Append(s, c) : s \in shorter, c \in Alphabet}

Strings == StringsUpTo(MaxLen)

Str(s)    == [t |-> "string",    n |-> 0, s |-> s]
Num(n)    == [t |-> "number",    n |-> n, s |-> <<>>]
Undefined == [t |-> "undefined", n |-> 0, s |-> <<>>]
Null      == [t |-> "null",      n |-> 0, s |-> <<>>]
Obj       == [t |-> "object",    n |-> 0, s |-> <<>>]

\* The values a client can put in the "word" member of the JSON body
\* (Undefined: the member, or the whole body, is absent).
BodyWords == {Str(s) : s \in Strings} \cup {Undefined, Null, Num(0), Num(7), Obj}

\* The requests a client sends: the insertion route with each body, the
\* insertion path with a word as its last segment (the form the test and
\* the README use), the listing route, and a wrong method.
Request(method, base, rest, word) ==
    [method |-> method, base |-> base, rest |-> rest, word |-> word]

Requests ==
    {Request("POST", "/api/addWord", <<>>, w) : w \in BodyWords}
    \cup {Request("GET", "/api/addWord", s, Undefined) : s \in Strings \ {<<>>}}
    \cup {Request("GET", "/api/viewWords", <<>>, Undefined)}
    \cup {Request("POST", "/api/viewWords", <<>>, Undefined)}

\* Truthy, were the handler to test `word == null` instead of `!word`.
TruthyNotNull(v) == v.t \notin {"undefined", "null"}

\* JavaScript's ToBoolean, as used by `!word`.
Truthy(v) ==
    CASE v.t = "string"    -> Len(v.s) > 0
      [] v.t = "number"    -> v.n # 0
      [] v.t = "undefined" -> FALSE
      [] v.t = "null"      -> FALSE
      [] OTHER             -> TRUE

\* ------------------------------------------------------------- routing
\* app.use('/api', wordRoutes) with router.post('/addWord') and
\* router.get('/viewWords'); a trailing slash is accepted (non-strict
\* routing), any further path segment is not.
Route(method, base, rest) ==
    CASE method = "POST" /\ base = "/api/addWord"   /\ rest = <<>> -> "addWord"
      [] method = "GET"  /\ base = "/api/viewWords" /\ rest = <<>> -> "viewWords"
      [] OTHER -> "notFound"

\* -------------------------------------------------------------- mongoose
\* Casting of a value to the schema type String: strings are kept, numbers
\* are rendered, null and undefined pass through, plain objects fail.
CastOk(v) == v.t # "object"

CastString(v) ==
    CASE v.t = "string" -> v
      [] v.t = "number" -> Str(<<ToString(v.n)>>)
      [] v.t = "null"   -> Null
      [] OTHER          -> Undefined

\* new Word({ value: word }): the document gets its _id on construction.
NewWord(id, word) ==
    [_id |-> id, value |-> CastString(word), castError |-> ~CastOk(word)]

\* The required validator of a String path.
CheckRequired(v) == v.t = "string" /\ Len(v.s) > 0

\* Validate, were the schema to declare no validation.
ValidateNothing(doc) == TRUE

\* Document validation, run by save() before the insert.
Validate(doc) == ~doc.castError /\ CheckRequired(doc.value)

\* The document as the store holds it.
Stored(doc) == [_id |-> doc._id, value |-> doc.value, __v |-> 0]

\* ------------------------------------------------------------- responses
JsonObject(key, text) ==
    [kind |-> "object", fields |-> <<<<key, text>>>>, items |-> <<>>]

\* res.json(words): each document with its _id as a string.
JsonDoc(d) == [_id |-> ToString(d._id), value |-> d.value, __v |-> d.__v]

\* JsonArray, were the handler to send the first document only.
JsonArrayFirst(docs) ==
    [kind |-> "array", fields |-> <<>>,
     items |-> [i \in 1..(IF Len(docs) > 0 THEN 1 ELSE 0) |-> JsonDoc(docs[i])]]

JsonArray(docs) ==
    [kind |-> "array", fields |-> <<>>,
     items |-> [i \in 1..Len(docs) |-> JsonDoc(docs[i])]]

\* The body of Express's default 404 answer.
HtmlBody == [kind |-> "html", fields |-> <<>>, items |-> <<>>]

NoBody == [kind |-> "none", fields |-> <<>>, items |-> <<>>]

NoDoc == [_id |-> 0, value |-> Undefined, castError |-> FALSE]

\* ----------------------------------------------------------------- state
VARIABLES
    connected,  \* the mongoose connection is ready
    store,      \* the words collection, in insertion order
    nextId,     \* source of fresh ObjectIds
    req,        \* the requests: input, position in the handler, response
    log         \* console.error output

vars == <<connected, store, nextId, req, log>>

Reqs == 1..MaxReq

Fresh ==
    [pc |-> "none", method |-> "GET", base |-> "/api/viewWords", rest |-> <<>>,
     word |-> Undefined, handler |-> "none", doc |-> NoDoc, found |-> <<>>,
     err |-> "", status |-> 0, body |-> NoBody, after |-> {}]

Init ==
    /\ connected = FALSE
    /\ store = <<>>
    /\ nextId = 1
    /\ req = [r \in Reqs |-> Fresh]
    /\ log = <<>>

Responded(r) == req[r].pc = "done"

\* A request arrives: requests are numbered in order of arrival.
Arrives(r) ==
    /\ req[r].pc = "none"
    /\ r > 1 => req[r - 1].pc # "none"

Arrived(r, q) ==
    [req[r] EXCEPT !.method = q.method, !.base = q.base, !.rest = q.rest,
                   !.word = q.word, !.handler = Route(q.method, q.base, q.rest),
                   !.after = {p \in Reqs : Responded(p)}]

\* mongoose.connect(...).then(...): the connection becomes ready.
Connect ==
    /\ ~connected
    /\ connected' = TRUE
    /\ UNCHANGED <<store, nextId, req, log>>

\* The store becomes unreachable.
Disconnect ==
    /\ connected
    /\ connected' = FALSE
    /\ UNCHANGED <<store, nextId, req, log>>

\* No route matches: Express answers 404.
NotFound(r) ==
    \E q \in Requests :
        /\ Arrives(r)
        /\ Route(q.method, q.base, q.rest) = "notFound"
        /\ req' = [req EXCEPT ![r] =
               [Arrived(r, q) EXCEPT
                   !.pc = "done", !.status = HTTP_NOT_FOUND, !.body = HtmlBody]]
        /\ UNCHANGED <<connected, store, nextId, log>>

\* router.post('/addWord'), up to `await newWord.save()`.
AddWordEntry(r) ==
    \E q \in Requests :
        /\ Arrives(r)
        /\ Route(q.method, q.base, q.rest) = "addWord"
        /\ IF ~Truthy(q.word)
           THEN /\ req' = [req EXCEPT ![r] =
                       [Arrived(r, q) EXCEPT
                           !.pc = "done", !.status = HTTP_BAD_REQUEST,
                           !.body = JsonObject("error", "Word is required")]]
                /\ UNCHANGED nextId
           ELSE /\ req' = [req EXCEPT ![r] =
                       [Arrived(r, q) EXCEPT
                           !.pc = "await_save", !.doc = NewWord(nextId, q.word)]]
                /\ nextId' = nextId + 1
        /\ UNCHANGED <<connected, store, log>>

\* save(): validation fails, the promise rejects.
SaveInvalid(r) ==
    /\ req[r].pc = "await_save"
    /\ ~Validate(req[r].doc)
    /\ req' = [req EXCEPT ![r].pc = "save_rejected", ![r].err = "ValidationError"]
    /\ UNCHANGED <<connected, store, nextId, log>>

\* SaveInsert, were the save an upsert keyed on the value.
SaveInsertUnique(r) ==
    /\ req[r].pc = "await_save"
    /\ Validate(req[r].doc)
    /\ connected
    /\ store' = IF \E k \in 1..Len(store) : store[k].value = req[r].doc.value
                THEN store
                ELSE Append(store, Stored(req[r].doc))
    /\ req' = [req EXCEPT ![r].pc = "save_resolved"]
    /\ UNCHANGED <<connected, nextId, log>>

\* SaveInsert, were the save to replace the collection's content.
SaveInsertReplace(r) ==
    /\ req[r].pc = "await_save"
    /\ Validate(req[r].doc)
    /\ connected
    /\ store' = <<Stored(req[r].doc)>>
    /\ req' = [req EXCEPT ![r].pc = "save_resolved"]
    /\ UNCHANGED <<connected, nextId, log>>

\* save(): the document is inserted, the promise resolves.
SaveInsert(r) ==
    /\ req[r].pc = "await_save"
    /\ Validate(req[r].doc)
    /\ connected
    /\ store' = Append(store, Stored(req[r].doc))
    /\ req' = [req EXCEPT ![r].pc = "save_resolved"]
    /\ UNCHANGED <<connected, nextId, log>>

\* SaveUnreachable, were the rejection to come after the write.
SaveUnreachableAfterWrite(r) ==
    /\ req[r].pc = "await_save"
    /\ Validate(req[r].doc)
    /\ ~connected
    /\ store' = Append(store, Stored(req[r].doc))
    /\ req' = [req EXCEPT ![r].pc = "save_rejected", ![r].err = "MongooseError"]
    /\ UNCHANGED <<connected, nextId, log>>

\* save(): the store is unreachable, the promise rejects.
SaveUnreachable(r) ==
    /\ req[r].pc = "await_save"
    /\ Validate(req[r].doc)
    /\ ~connected
    /\ req' = [req EXCEPT ![r].pc = "save_rejected", ![r].err = "MongooseError"]
    /\ UNCHANGED <<connected, store, nextId, log>>

\* router.post('/addWord') after the await: res.json({ message }).
AddWordReturn(r) ==
    /\ req[r].pc = "save_resolved"
    /\ req' = [req EXCEPT ![r].pc = "done", ![r].status = HTTP_OK,
                          ![r].body = JsonObject("message", "Word added successfully")]
    /\ UNCHANGED <<connected, store, nextId, log>>

\* AddWordCatch, were the catch block to send the error itself.
AddWordCatchLeaks(r) ==
    /\ req[r].pc = "save_rejected"
    /\ log' = Append(log, <<"Error adding word:", req[r].err>>)
    /\ req' = [req EXCEPT ![r].pc = "done", ![r].status = HTTP_INTERNAL_SERVER_ERROR,
                          ![r].body = JsonObject("error", req[r].err)]
    /\ UNCHANGED <<connected, store, nextId>>

\* router.post('/addWord'), catch block.
AddWordCatch(r) ==
    /\ req[r].pc = "save_rejected"
    /\ log' = Append(log, <<"Error adding word:", req[r].err>>)
    /\ req' = [req EXCEPT ![r].pc = "done", ![r].status = HTTP_INTERNAL_SERVER_ERROR,
                          ![r].body = JsonObject("error", "Error adding word")]
    /\ UNCHANGED <<connected, store, nextId>>

\* router.get('/viewWords'), up to `await Word.find()`.
ViewWordsEntry(r) ==
    \E q \in Requests :
        /\ Arrives(r)
        /\ Route(q.method, q.base, q.rest) = "viewWords"
        /\ req' = [req EXCEPT ![r] =
               [Arrived(r, q) EXCEPT !.pc = "await_find"]]
        /\ UNCHANGED <<connected, store, nextId, log>>

\* FindAll, were the query limited to one document.
FindAllLimited(r) ==
    /\ req[r].pc = "await_find"
    /\ connected
    /\ req' = [req EXCEPT ![r].pc = "find_resolved",
                          ![r].found = IF Len(store) > 1 THEN <<store[1]>> ELSE store]
    /\ UNCHANGED <<connected, store, nextId, log>>

\* Word.find(): every document of the collection, the promise resolves.
FindAll(r) ==
    /\ req[r].pc = "await_find"
    /\ connected
    /\ req' = [req EXCEPT ![r].pc = "find_resolved", ![r].found = store]
    /\ UNCHANGED <<connected, store, nextId, log>>

\* Word.find(): the store is unreachable, the promise rejects.
FindUnreachable(r) ==
    /\ req[r].pc = "await_find"
    /\ ~connected
    /\ req' = [req EXCEPT ![r].pc = "find_rejected", ![r].err = "MongooseError"]
    /\ UNCHANGED <<connected, store, nextId, log>>

\* router.get('/viewWords') after the await: res.json(words).
ViewWordsReturn(r) ==
    /\ req[r].pc = "find_resolved"
    /\ req' = [req EXCEPT ![r].pc = "done", ![r].status = HTTP_OK,
                          ![r].body = JsonArray(req[r].found)]
    /\ UNCHANGED <<connected, store, nextId, log>>

\* ViewWordsCatch, were the catch block to answer with an empty list.
ViewWordsCatchEmpty(r) ==
    /\ req[r].pc = "find_rejected"
    /\ req' = [req EXCEPT ![r].pc = "done", ![r].status = HTTP_OK,
                          ![r].body = JsonArray(<<>>)]
    /\ UNCHANGED <<connected, store, nextId, log>>

\* router.get('/viewWords'), catch block.
ViewWordsCatch(r) ==
    /\ req[r].pc = "find_rejected"
    /\ log' = Append(log, <<"Error fetching words:", req[r].err>>)
    /\ req' = [req EXCEPT ![r].pc = "done", ![r].status = HTTP_INTERNAL_SERVER_ERROR,
                          ![r].body = JsonObject("error", "Error fetching words")]
    /\ UNCHANGED <<connected, store, nextId>>

Next ==
    \/ Connect
    \/ Disconnect
    \/ \E r \in Reqs : NotFound(r)
    \/ \E r \in Reqs : AddWordEntry(r)
    \/ \E r \in Reqs : SaveInvalid(r)
    \/ \E r \in Reqs : SaveInsert(r)
    \/ \E r \in Reqs : SaveUnreachable(r)
    \/ \E r \in Reqs : AddWordReturn(r)
    \/ \E r \in Reqs : AddWordCatch(r)
    \/ \E r \in Reqs : ViewWordsEntry(r)
    \/ \E r \in Reqs : FindAll(r)
    \/ \E r \in Reqs : FindUnreachable(r)
    \/ \E r \in Reqs : ViewWordsReturn(r)
    \/ \E r \in Reqs : ViewWordsCatch(r)

Spec == Init /\ [][Next]_vars

\* ------------------------------------------------------------ properties
IsInsertion(r) == req[r].handler = "addWord"
IsListing(r)   == req[r].handler = "viewWords"

AddedBody    == JsonObject("message", "Word added successfully")
RequiredBody == JsonObject("error", "Word is required")
AddErrorBody == JsonObject("error", "Error adding word")
FetchErrorBody == JsonObject("error", "Error fetching words")

\* The records of the store that carry the identifier of request r's document.
RecordsOf(r) == {k \in 1..Len(store) : store[k]._id = req[r].doc._id}

\* The response body of r lists a record with this identifier and value.
Lists(r, id, value) ==
    \E k \in 1..Len(req[r].body.items) :
        /\ req[r].body.items[k]._id = ToString(id)
        /\ req[r].body.items[k].value = value

\* The response body of r lists some record with this value.
ListsValue(r, value) ==
    \E k \in 1..Len(req[r].body.items) : req[r].body.items[k].value = value

\* Request r took a step of its handler in this transition.
Stepped(r) == req'[r] # req[r]

\* C1: a GET request to /api/addWord/{word} with a non-empty word is routed
\* to the insertion handler; it is never answered 404, and it is answered
\* 200 with {message: "Word added successfully"} when the insert is accepted.
C1_GetAddWordInserts ==
    \A r \in Reqs :
        (/\ req[r].pc # "none"
         /\ req[r].method = "GET" /\ req[r].base = "/api/addWord"
         /\ Len(req[r].rest) > 0)
        => /\ IsInsertion(r)
           /\ Responded(r) => /\ req[r].status # HTTP_NOT_FOUND
                              /\ RecordsOf(r) # {} =>
                                    /\ req[r].status = HTTP_OK
                                    /\ req[r].body = AddedBody

\* C2: a listing request that arrives after an insertion request with a
\* non-empty string w was answered 200, and whose find succeeds, is answered
\* with a 200 array that holds a record whose value is w.
C2_ListingShowsInserted ==
    \A l \in Reqs : \A i \in req[l].after :
        (/\ IsListing(l) /\ Responded(l) /\ req[l].err = ""
         /\ IsInsertion(i) /\ req[i].status = HTTP_OK
         /\ req[i].word.t = "string")
        => /\ req[l].status = HTTP_OK
           /\ req[l].body.kind = "array"
           /\ ListsValue(l, req[i].word)

C2_Witness ==
    \E l \in Reqs : \E i \in req[l].after :
        /\ IsListing(l) /\ Responded(l) /\ req[l].status = HTTP_OK
        /\ IsInsertion(i) /\ req[i].status = HTTP_OK
        /\ req[i].word.t = "string"
        /\ Len(req[l].body.items) >= 2
        /\ req[l].body.items[1].value # req[i].word
        /\ ListsValue(l, req[i].word)

\* C3: an insertion request whose word is empty or missing is answered in
\* the same step with 400 and {error: "Word is required"}; no document is
\* built or saved and the store is left as it was.
C3_EmptyWordRejected ==
    [][\A r \in Reqs :
          (/\ req[r].pc = "none" /\ req'[r].pc # "none"
           /\ req'[r].handler = "addWord"
           /\ req'[r].word \in {Str(<<>>), Undefined})
          => /\ req'[r].pc = "done"
             /\ req'[r].status = HTTP_BAD_REQUEST
             /\ req'[r].body = RequiredBody
             /\ req'[r].doc = NoDoc
             /\ nextId' = nextId
             /\ store' = store]_vars

C3_Witness ==
    /\ Len(store) > 0
    /\ \E r \in Reqs :
          /\ IsInsertion(r) /\ Responded(r)
          /\ req[r].word = Str(<<>>)
          /\ req[r].status = HTTP_BAD_REQUEST
    /\ \E r \in Reqs :
          /\ IsInsertion(r) /\ Responded(r)
          /\ req[r].word = Undefined
          /\ req[r].status = HTTP_BAD_REQUEST

\* C4: when the save of an insertion request fails, no record of its
\* document is in the store, and the request is answered 500 with exactly
\* {error: "Error adding word"}, the error itself going to the log only.
C4_SaveFailureIs500 ==
    \A r \in Reqs :
        (IsInsertion(r) /\ req[r].err # "")
        => /\ RecordsOf(r) = {}
           /\ Responded(r) =>
                 /\ req[r].status = HTTP_INTERNAL_SERVER_ERROR
                 /\ req[r].body = AddErrorBody
                 /\ \E k \in 1..Len(log) : log[k] = <<"Error adding word:", req[r].err>>

C4_Witness ==
    /\ \E r \in Reqs :
          /\ IsInsertion(r) /\ Responded(r) /\ req[r].err = "MongooseError"
          /\ req[r].status = HTTP_INTERNAL_SERVER_ERROR
    /\ \E r \in Reqs :
          /\ IsInsertion(r) /\ Responded(r) /\ req[r].err = "ValidationError"
          /\ req[r].status = HTTP_INTERNAL_SERVER_ERROR

\* C5: find returns every record the store holds at that moment, and the
\* listing request is then answered 200 with an array of exactly those
\* records, in order, each with its identifier and value; the array of an
\* empty store is empty.
C5_ListingIsWholeStore ==
    [][\A r \in Reqs :
          /\ (req[r].pc = "await_find" /\ req'[r].pc = "find_resolved")
             => req'[r].found = store
          /\ (req[r].pc = "find_resolved" /\ Stepped(r))
             => /\ req'[r].pc = "done"
                /\ req'[r].status = HTTP_OK
                /\ req'[r].body.kind = "array"
                /\ Len(req'[r].body.items) = Len(req[r].found)
                /\ \A k \in 1..Len(req[r].found) :
                      /\ req'[r].body.items[k]._id = ToString(req[r].found[k]._id)
                      /\ req'[r].body.items[k].value = req[r].found[k].value]_vars

C5_Witness ==
    /\ \E r \in Reqs :
          /\ IsListing(r) /\ Responded(r) /\ req[r].status = HTTP_OK
          /\ Len(req[r].body.items) = 0
    /\ \E r \in Reqs :
          /\ IsListing(r) /\ Responded(r) /\ req[r].status = HTTP_OK
          /\ Len(req[r].body.items) >= 1
          /\ Len(req[r].body.items) = Len(store)

\* C6: a find issued while the store is unreachable fails; the listing
\* request is then answered 500 with exactly {error: "Error fetching words"},
\* the error going to the log only, and the store is left as it was.
C6_FindFailureIs500 ==
    [][\A r \in Reqs :
          /\ (req[r].pc = "await_find" /\ Stepped(r) /\ ~connected)
             => req'[r].pc = "find_rejected" /\ store' = store
          /\ (req[r].pc = "find_rejected" /\ Stepped(r))
             => /\ req'[r].pc = "done"
                /\ req'[r].status = HTTP_INTERNAL_SERVER_ERROR
                /\ req'[r].body = FetchErrorBody
                /\ log' = Append(log, <<"Error fetching words:", req[r].err>>)
                /\ store' = store]_vars

C6_Witness ==
    /\ Len(store) > 0
    /\ \E r \in Reqs :
          /\ IsListing(r) /\ Responded(r) /\ req[r].err = "MongooseError"
          /\ req[r].status = HTTP_INTERNAL_SERVER_ERROR

\* C7: two insertion requests with the same word, both answered 200, have
\* each made a record of their own: the identifiers differ, the values are
\* equal, and a listing that arrives after both shows both records.
C7_NoDeduplication ==
    \A i \in Reqs : \A j \in Reqs \ {i} :
        (/\ IsInsertion(i) /\ req[i].status = HTTP_OK
         /\ IsInsertion(j) /\ req[j].status = HTTP_OK
         /\ req[i].word = req[j].word)
        => /\ req[i].doc._id # req[j].doc._id
           /\ \E a \in RecordsOf(i) : \E b \in RecordsOf(j) :
                 a # b /\ store[a].value = store[b].value
           /\ \A l \in Reqs :
                 (/\ IsListing(l) /\ req[l].status = HTTP_OK
                  /\ {i, j} \subseteq req[l].after)
                 => /\ Lists(l, req[i].doc._id, req[i].doc.value)
                    /\ Lists(l, req[j].doc._id, req[j].doc.value)

C7_Witness ==
    \E i \in Reqs : \E j \in Reqs \ {i} : \E l \in Reqs :
        /\ IsInsertion(i) /\ req[i].status = HTTP_OK
        /\ IsInsertion(j) /\ req[j].status = HTTP_OK
        /\ req[i].word = req[j].word
        /\ IsListing(l) /\ req[l].status = HTTP_OK
        /\ {i, j} \subseteq req[l].after
        /\ Len(req[l].body.items) = 2

\* C8: every record of the store has a value that is a non-empty string.
C8_StoredValuesNonEmpty ==
    \A k \in 1..Len(store) :
        store[k].value.t = "string" /\ Len(store[k].value.s) > 0

C8_Witness ==
    /\ Len(store) >= 1
    /\ \E r \in Reqs : IsInsertion(r) /\ Responded(r) /\ req[r].word = Obj
    /\ \E r \in Reqs : IsInsertion(r) /\ Responded(r) /\ req[r].word = Str(<<>>)

\* The steps of request r's handler and of its database operation.
Progress(r) ==
    \/ SaveInvalid(r) \/ SaveInsert(r) \/ SaveUnreachable(r)
    \/ AddWordReturn(r) \/ AddWordCatch(r)
    \/ FindAll(r) \/ FindUnreachable(r)
    \/ ViewWordsReturn(r) \/ ViewWordsCatch(r)

\* C9: under every interleaving an insertion request that has arrived can
\* always move on until it is answered, and its answer is final; it is
\* answered 200 exactly when one record of its document, with its word, is
\* in the store, and 400 or 500 only when none is; when every request is
\* answered the store holds as many records as insertions were answered 200.
C9_InsertionAtomic ==
    /\ \A r \in Reqs :
          IsInsertion(r) =>
             /\ ~Responded(r) => ENABLED Progress(r)
             /\ Responded(r) =>
                   /\ ~ENABLED Progress(r)
                   /\ req[r].status \in
                         {HTTP_OK, HTTP_BAD_REQUEST, HTTP_INTERNAL_SERVER_ERROR}
                   /\ req[r].status = HTTP_OK
                         <=> /\ Cardinality(RecordsOf(r)) = 1
                             /\ \A k \in RecordsOf(r) :
                                   store[k].value = CastString(req[r].word)
                   /\ req[r].status # HTTP_OK => RecordsOf(r) = {}
    /\ (\A r \in Reqs : Responded(r))
          => Len(store) =
                Cardinality({r \in Reqs : IsInsertion(r) /\ req[r].status = HTTP_OK})

C9_Witness ==
    /\ \A r \in Reqs : Responded(r) /\ IsInsertion(r)
    /\ \E r \in Reqs : req[r].status = HTTP_INTERNAL_SERVER_ERROR
    /\ \E r \in Reqs : req[r].status = HTTP_OK
    /\ \E r \in Reqs : r > 1 /\ r - 1 \notin req[r].after

\* C10: no step removes or changes a record of the store: the store of the
\* next state starts with the store of this one; and no step of a listing
\* request changes the store at all.
C10_StoreGrowOnly ==
    [][/\ Len(store') >= Len(store)
       /\ SubSeq(store', 1, Len(store)) = store
       /\ \A r \in Reqs :
             (Stepped(r) /\ req'[r].handler = "viewWords") => store' = store]_vars

C10_Witness ==
    /\ Len(store) >= 1
    /\ \E r \in Reqs : IsListing(r) /\ Responded(r) /\ req[r].status = HTTP_OK
    /\ \E r \in Reqs :
          IsListing(r) /\ Responded(r) /\ req[r].status = HTTP_INTERNAL_SERVER_ERROR

TypeOK ==
    /\ connected \in BOOLEAN
    /\ nextId \in 1..(MaxReq + 1)
    /\ Len(store) <= MaxReq
====
